---- MODULE Spec2Model ----
(***************************************************************************)
(* Model of the png-msg chunk codec: src/src/chunk_type.rs (ChunkType) and *)
(* src/src/chunk.rs (Chunk).                                               *)
(*                                                                         *)
(* Bytes (u8) are integers 0..255.  A u32 is held as the set of its set    *)
(* bit positions (a subset of 0..31): TLC integers are signed 32-bit, so    *)
(* values such as 0xFFFFFFFF have no integer form.  Byte                   *)
(* sequences (&[u8], Vec<u8>, [u8;4]) are sequences of bytes, 1-indexed.   *)
(***************************************************************************)
EXTENDS Integers, Sequences, FiniteSets, TLC

VARIABLES self, chunk, value, mut, ret

vars == <<self, chunk, value, mut, ret>>

\* ---------------------------------------------------------------- bounds
MaxStrLen == 5
MaxData == 2
MaxExtra == 2

\* ------------------------------------------------------- byte arithmetic
Pow2(n) == 2 ^ n

BitSet(b, i) == (b \div Pow2(i)) % 2 = 1

\* b & m on u8
BitAnd(b, m) ==
  LET bit(i) == IF BitSet(b, i) /\ BitSet(m, i) THEN Pow2(i) ELSE 0
  IN bit(0) + bit(1) + bit(2) + bit(3) + bit(4) + bit(5) + bit(6) + bit(7)

\* b ^ m on u8
BitXor(b, m) ==
  LET bit(i) == IF BitSet(b, i) # BitSet(m, i) THEN Pow2(i) ELSE 0
  IN bit(0) + bit(1) + bit(2) + bit(3) + bit(4) + bit(5) + bit(6) + bit(7)

\* ------------------------------------------------------------ u32 values
U32Xor(x, y) == {i \in 0 .. 31 : (i \in x) # (i \in y)}

U32Shr(x, n) == {i \in 0 .. 31 : i + n \in x}

U32Not(x) == {i \in 0 .. 31 : i \notin x}

\* u8 as u32
U32FromByte(b) == {i \in 0 .. 7 : BitSet(b, i)}

\* (x & 0xFF) as u8
U32LowByte(x) ==
  LET bit(i) == IF i \in x THEN Pow2(i) ELSE 0
  IN bit(0) + bit(1) + bit(2) + bit(3) + bit(4) + bit(5) + bit(6) + bit(7)

\* usize as u32 (the model's lengths are far below 2^31)
U32FromUsize(n) == {i \in 0 .. 30 : BitSet(n, i)}

\* A usize larger than the length of any buffer of the model; u32 values
\* of 2^16 and above are carried as this value when widened to usize.
UsizeHuge == Pow2(16)

\* u32 as usize
UsizeFromU32(x) ==
  IF \E i \in x : i >= 16 THEN UsizeHuge
  ELSE LET bit(i) == IF i \in x THEN Pow2(i) ELSE 0
           lo == bit(0) + bit(1) + bit(2) + bit(3) + bit(4) + bit(5) + bit(6) + bit(7)
           hi == bit(8) + bit(9) + bit(10) + bit(11) + bit(12) + bit(13) + bit(14) + bit(15)
       IN hi + lo

\* to_be_bytes emitting the least significant byte first
to_be_bytes_le(x) ==
  [k \in 1 .. 4 |-> U32LowByte(U32Shr(x, 8 * (k - 1)))]

\* u32::to_be_bytes
to_be_bytes(x) ==
  [k \in 1 .. 4 |-> U32LowByte(U32Shr(x, 8 * (4 - k)))]

\* u32::from_be_bytes
from_be_bytes(bs) ==
  {i \in 0 .. 31 : BitSet(bs[4 - (i \div 8)], i % 8)}

\* ------------------------------------------------------- CRC-32 (IEEE)
\* 0xEDB88320, the reflected IEEE 802.3 polynomial
CrcPoly == {5, 8, 9, 15, 19, 20, 21, 23, 24, 26, 27, 29, 30, 31}

CrcStep(c) == IF 0 \in c THEN U32Xor(U32Shr(c, 1), CrcPoly) ELSE U32Shr(c, 1)

CrcTable ==
  [n \in 0 .. 255 |->
     CrcStep(CrcStep(CrcStep(CrcStep(CrcStep(CrcStep(CrcStep(CrcStep(U32FromByte(n)))))))))]

\* one table-driven step of the CRC register for input byte b
CrcUpdate(c, b) == U32Xor(CrcTable[BitXor(U32LowByte(c), b)], U32Shr(c, 8))

\* the CRC register after all of bytes, starting from 0xFFFFFFFF; each
\* intermediate register is bound to its value before the next step uses it
CrcRegister(bytes) ==
  LET reg[i \in 0 .. Len(bytes)] ==
        IF i = 0 THEN 0 .. 31
        ELSE CHOOSE r \in {CrcUpdate(c, bytes[i]) : c \in {reg[i - 1]}} : TRUE
  IN reg[Len(bytes)]

\* crc::crc32::checksum_ieee
checksum_ieee(bytes) == U32Not(CrcRegister(bytes))

\* ------------------------------------------------------ results of calls
Ok(v) == [kind |-> "Ok", val |-> v]

Err(e) == [kind |-> "Err", err |-> e]

\* the process-fatal abort of a failed slice split
Panic == [kind |-> "Panic"]

NoValue == [kind |-> "None"]

NoCall == [op |-> "none"]

Call(op, arg, res) == [op |-> op, arg |-> arg, res |-> res]

\* ------------------------------------------------------------- ChunkType
ChunkType(b) == [bytes |-> b]

bytes(ct) == ct.bytes

is_reserved_bit_valid(ct) == BitAnd(ct.bytes[3], 32) # 32

is_valid(ct) ==
  LET valid_chars ==
        \A k \in 1 .. 4 :
          LET b == ct.bytes[k]
          IN (b >= 97 /\ b < 122) \/ (b >= 65 /\ b <= 90)
  IN valid_chars /\ is_reserved_bit_valid(ct)

is_critical(ct) == BitAnd(ct.bytes[1], 32) # 32

\* is_public reading the byte of is_critical
is_public_byte0(ct) == BitAnd(ct.bytes[1], 32) # 32

is_public(ct) == BitAnd(ct.bytes[2], 32) # 32

is_safe_to_copy(ct) == BitAnd(ct.bytes[4], 32) = 32

ChunkType_try_from(v) == Ok(ChunkType(v))

ByteLengthError(n) == [name |-> "ByteLengthError", len |-> n]

InvalidCharacter == [name |-> "InvalidCharacter"]

\* from_str with the half-open lowercase range of is_valid
from_str_half_open(s) ==
  IF Len(s) # 4 THEN Err(ByteLengthError(Len(s)))
  ELSE LET valid_chars ==
             \A k \in 1 .. Len(s) :
               (s[k] >= 97 /\ s[k] < 122) \/ (s[k] >= 65 /\ s[k] <= 90)
       IN IF ~valid_chars THEN Err(InvalidCharacter)
          ELSE ChunkType_try_from(<<s[1], s[2], s[3], s[4]>>)

from_str(s) ==
  IF Len(s) # 4 THEN Err(ByteLengthError(Len(s)))
  ELSE LET valid_chars ==
             \A k \in 1 .. Len(s) :
               (s[k] >= 97 /\ s[k] <= 122) \/ (s[k] >= 65 /\ s[k] <= 90)
       IN IF ~valid_chars THEN Err(InvalidCharacter)
          ELSE ChunkType_try_from(<<s[1], s[2], s[3], s[4]>>)

\* ---------------------------------------------------- inputs of the tags
RuSt == <<82, 117, 83, 116>>

Rust == <<82, 117, 115, 116>>

RuST == <<82, 117, 83, 84>>

Ru1t == <<82, 117, 49, 116>>

\* bytes of the text inputs: the letters at the ends of both ranges and
\* their outer neighbours  @ A Z [ ` a z {
StrBytes == {64, 65, 90, 91, 96, 97, 122, 123}

\* bytes of the [u8;4] inputs: StrBytes and bytes that are not ASCII text
TypeBytes == StrBytes \cup {0, 32, 255}

StrInputs ==
  UNION {[1 .. n -> StrBytes] : n \in 0 .. MaxStrLen} \cup {RuSt, Rust, RuST, Ru1t}

TypeInputs == [1 .. 4 -> TypeBytes] \cup {RuSt, Rust, RuST, Ru1t}

\* ------------------------------------------------- operations on the tag
TypeTryFrom ==
  /\ ret = NoCall
  /\ \E v \in TypeInputs :
       /\ ret' = Call("try_from", v, ChunkType_try_from(v))
       /\ self' = ChunkType_try_from(v).val
  /\ UNCHANGED <<chunk, value, mut>>

TypeFromStr ==
  /\ ret = NoCall
  /\ \E s \in StrInputs :
       /\ ret' = Call("from_str", s, from_str(s))
       /\ self' = IF from_str(s).kind = "Ok" THEN from_str(s).val ELSE NoValue
  /\ UNCHANGED <<chunk, value, mut>>

TypeIsValid ==
  /\ self # NoValue
  /\ ret' = Call("is_valid", self, is_valid(self))
  /\ UNCHANGED <<self, chunk, value, mut>>

TypeIsCritical ==
  /\ self # NoValue
  /\ ret' = Call("is_critical", self, is_critical(self))
  /\ UNCHANGED <<self, chunk, value, mut>>

TypeIsPublic ==
  /\ self # NoValue
  /\ ret' = Call("is_public", self, is_public(self))
  /\ UNCHANGED <<self, chunk, value, mut>>

TypeIsReservedBitValid ==
  /\ self # NoValue
  /\ ret' = Call("is_reserved_bit_valid", self, is_reserved_bit_valid(self))
  /\ UNCHANGED <<self, chunk, value, mut>>

TypeIsSafeToCopy ==
  /\ self # NoValue
  /\ ret' = Call("is_safe_to_copy", self, is_safe_to_copy(self))
  /\ UNCHANGED <<self, chunk, value, mut>>

TypeInit ==
  /\ self = NoValue
  /\ chunk = NoValue
  /\ value = <<>>
  /\ mut = [kind |-> "none"]
  /\ ret = NoCall

TypeNext ==
  \/ TypeTryFrom
  \/ TypeFromStr
  \/ TypeIsValid
  \/ TypeIsCritical
  \/ TypeIsPublic
  \/ TypeIsReservedBitValid
  \/ TypeIsSafeToCopy

SpecType == TypeInit /\ [][TypeNext]_vars

\* ----------------------------------------------------------------- Chunk
DATA_LENGTH_BYTES == 4

CHUNK_TYPE_BYTES == 4

CRC_BYTES == 4

\* METADATA_BYTES without the CRC field
METADATA_BYTES_no_crc == DATA_LENGTH_BYTES + CHUNK_TYPE_BYTES

METADATA_BYTES == DATA_LENGTH_BYTES + CHUNK_TYPE_BYTES + CHUNK_TYPE_BYTES

Chunk_new(chunk_type, data) == [chunk_type |-> chunk_type, data |-> data]

length(c) == Len(c.data)

\* crc over the data alone
crc_data_only(c) == checksum_ieee(c.data)

crc(c) == checksum_ieee(bytes(c.chunk_type) \o c.data)

as_bytes(c) ==
  LET data_length == U32FromUsize(length(c))
  IN to_be_bytes(data_length) \o bytes(c.chunk_type) \o c.data \o to_be_bytes(crc(c))

InputTooSmall == [name |-> "InputTooSmall"]

InvalidChunkType == [name |-> "InvalidChunkType"]

InvalidCrc(expected, actual) ==
  [name |-> "InvalidCrc", expected |-> expected, actual |-> actual]

\* <[T]>::split_at, which panics when mid > len
split_at(v, mid) ==
  IF mid > Len(v) THEN Panic
  ELSE Ok(<<SubSeq(v, 1, mid), SubSeq(v, mid + 1, Len(v))>>)

\* try_from without the is_valid check of the chunk type
Chunk_try_from_unchecked(v) ==
  IF Len(v) < METADATA_BYTES THEN Err(InputTooSmall)
  ELSE
    LET data_length == UsizeFromU32(from_be_bytes(SubSeq(v, 1, 4)))
        chunk_type == ChunkType(SubSeq(v, 5, 8))
        rest == SubSeq(v, 9, Len(v))
    IN IF data_length > Len(rest) \/ CRC_BYTES > Len(rest) - data_length THEN Panic
       ELSE
         LET new == [chunk_type |-> chunk_type, data |-> SubSeq(rest, 1, data_length)]
             actual_crc == crc(new)
             expected_crc == from_be_bytes(SubSeq(rest, data_length + 1, data_length + 4))
         IN IF expected_crc # actual_crc
            THEN Err(InvalidCrc(expected_crc, actual_crc))
            ELSE Ok(new)

Chunk_try_from(v) ==
  IF Len(v) < METADATA_BYTES THEN Err(InputTooSmall)
  ELSE
    LET s1 == split_at(v, DATA_LENGTH_BYTES)
    IN IF s1 = Panic THEN Panic
       ELSE
         LET data_length == UsizeFromU32(from_be_bytes(s1.val[1]))
             s2 == split_at(s1.val[2], CHUNK_TYPE_BYTES)
         IN IF s2 = Panic THEN Panic
            ELSE
              LET chunk_type == ChunkType_try_from(s2.val[1]).val
              IN IF ~is_valid(chunk_type) THEN Err(InvalidChunkType)
                 ELSE
                   LET s3 == split_at(s2.val[2], data_length)
                   IN IF s3 = Panic THEN Panic
                      ELSE
                        LET s4 == split_at(s3.val[2], CRC_BYTES)
                        IN IF s4 = Panic THEN Panic
                           ELSE
                             LET new == [chunk_type |-> chunk_type, data |-> s3.val[1]]
                                 actual_crc == crc(new)
                                 expected_crc == from_be_bytes(s4.val[1])
                             IN IF expected_crc # actual_crc
                                THEN Err(InvalidCrc(expected_crc, actual_crc))
                                ELSE Ok(new)

\* -------------------------------------------------- inputs of the chunks
RuSz == <<82, 117, 83, 122>>

zzZz == <<122, 122, 90, 122>>

\* tags handed to Chunk::new: valid ones without and with the letter z,
\* one with the reserved bit set, one with a digit
ChunkTags == {RuSt, RuSz, zzZz, Rust, Ru1t}

DataBytes == {0, 65, 255}

\* the data of the tests of chunk.rs, "This is where your secret message will be!"
TestMessage ==
  <<84, 104, 105, 115, 32, 105, 115, 32, 119, 104, 101, 114, 101, 32,
    121, 111, 117, 114, 32, 115, 101, 99, 114, 101, 116, 32, 109, 101,
    115, 115, 97, 103, 101, 32, 119, 105, 108, 108, 32, 98, 101, 33>>

DataInputs == UNION {[1 .. n -> DataBytes] : n \in 0 .. MaxData} \cup {TestMessage}

\* bytes appended after the CRC field
ExtraInputs == UNION {[1 .. n -> {0, 255}] : n \in 1 .. MaxExtra}

\* masks xor-ed into one byte of the CRC field
AlterMasks == {1, 128, 255}

\* length fields written over the declared length
LengthInputs ==
  {<<0, 0, 0, n>> : n \in 0 .. MaxData + MaxExtra + 5}
    \cup {<<0, 0, 1, 0>>, <<1, 0, 0, 0>>, <<255, 255, 255, 255>>}

MaxRaw == 14

\* inputs that no chunk was serialised to: n copies of one byte
RawInputs == {[k \in 1 .. n |-> b] : n \in 0 .. MaxRaw, b \in {0, 65, 255}}

\* ----------------------------------------------- operations on the chunk
ChunkNew ==
  /\ chunk = NoValue
  /\ mut.kind = "none"
  /\ \E t \in ChunkTags, d \in DataInputs :
       /\ chunk' = Chunk_new(ChunkType(t), d)
       /\ ret' = Call("new", <<t, d>>, Ok(chunk'))
  /\ UNCHANGED <<self, value, mut>>

ChunkLength ==
  /\ chunk # NoValue
  /\ mut.kind = "none"
  /\ ret' = Call("length", chunk, length(chunk))
  /\ UNCHANGED <<self, chunk, value, mut>>

ChunkCrc ==
  /\ chunk # NoValue
  /\ mut.kind = "none"
  /\ ret' = Call("crc", chunk, crc(chunk))
  /\ UNCHANGED <<self, chunk, value, mut>>

ChunkAsBytes ==
  /\ chunk # NoValue
  /\ mut.kind = "none"
  /\ value' = as_bytes(chunk)
  /\ mut' = [kind |-> "as_bytes"]
  /\ ret' = Call("as_bytes", chunk, value')
  /\ UNCHANGED <<self, chunk>>

\* the caller hands over bytes that are not the output of as_bytes
RawInput ==
  /\ chunk = NoValue
  /\ mut.kind = "none"
  /\ \E b \in RawInputs :
       /\ value' = b
       /\ mut' = [kind |-> "raw"]
  /\ ret' = NoCall
  /\ UNCHANGED <<self, chunk>>

\* one bit of the type or data region of the serialised chunk is flipped
FlipBit ==
  /\ mut.kind = "as_bytes"
  /\ \E pos \in DATA_LENGTH_BYTES + 1 .. Len(value) - CRC_BYTES, bit \in 0 .. 7 :
       /\ value' = [value EXCEPT ![pos] = BitXor(value[pos], Pow2(bit))]
       /\ mut' = [kind |-> "flip", pos |-> pos, bit |-> bit]
  /\ ret' = NoCall
  /\ UNCHANGED <<self, chunk>>

\* one byte of the CRC field of the serialised chunk is altered
AlterCrc ==
  /\ mut.kind = "as_bytes"
  /\ \E pos \in Len(value) - CRC_BYTES + 1 .. Len(value), m \in AlterMasks :
       /\ value' = [value EXCEPT ![pos] = BitXor(value[pos], m)]
       /\ mut' = [kind |-> "crc", pos |-> pos, mask |-> m]
  /\ ret' = NoCall
  /\ UNCHANGED <<self, chunk>>

\* the serialised chunk is cut short
Truncate ==
  /\ mut.kind = "as_bytes"
  /\ \E n \in 0 .. Len(value) - 1 :
       /\ value' = SubSeq(value, 1, n)
       /\ mut' = [kind |-> "truncate", len |-> n]
  /\ ret' = NoCall
  /\ UNCHANGED <<self, chunk>>

\* bytes follow the CRC field of the serialised chunk
AppendExtra ==
  /\ mut.kind = "as_bytes"
  /\ \E x \in ExtraInputs :
       /\ value' = value \o x
       /\ mut' = [kind |-> "append", extra |-> x]
  /\ ret' = NoCall
  /\ UNCHANGED <<self, chunk>>

\* the declared length of the serialised chunk is overwritten
SetLength ==
  /\ mut.kind = "as_bytes"
  /\ \E l \in LengthInputs :
       /\ l # SubSeq(value, 1, DATA_LENGTH_BYTES)
       /\ value' = l \o SubSeq(value, DATA_LENGTH_BYTES + 1, Len(value))
       /\ mut' = [kind |-> "length", field |-> l]
  /\ ret' = NoCall
  /\ UNCHANGED <<self, chunk>>

\* a panic leaves the process with no further step: nothing follows a parse
ChunkTryFrom ==
  /\ mut.kind # "none"
  /\ ret.op # "try_from"
  /\ ret' = Call("try_from", value, Chunk_try_from(value))
  /\ UNCHANGED <<self, chunk, value, mut>>

ChunkInit ==
  /\ self = NoValue
  /\ chunk = NoValue
  /\ value = <<>>
  /\ mut = [kind |-> "none"]
  /\ ret = NoCall

ChunkNext ==
  \/ ChunkNew
  \/ ChunkLength
  \/ ChunkCrc
  \/ ChunkAsBytes
  \/ RawInput
  \/ FlipBit
  \/ AlterCrc
  \/ Truncate
  \/ AppendExtra
  \/ SetLength
  \/ ChunkTryFrom

SpecChunk == ChunkInit /\ [][ChunkNext]_vars

\* ---------------------------------------------------- terms of the claims
\* A-Z or a-z, both ranges inclusive
IsAsciiLetter(b) == b \in (65 .. 90) \cup (97 .. 122)

\* bit 0x20 of a byte
LowercaseBit(b) == (b \div 32) % 2 = 1

\* a valid tag: four ASCII letters, the one at byte index 2 uppercase
ValidTag(t) == (\A k \in 1 .. 4 : IsAsciiLetter(t[k])) /\ ~LowercaseBit(t[3])

\* the value of a 4-byte big-endian field below 2^16, -1 above
FieldValue(f) == IF f[1] = 0 /\ f[2] = 0 THEN 256 * f[3] + f[4] ELSE -1

\* the 4 big-endian bytes of a u32, bit by bit
BigEndian(x) ==
  [k \in 1 .. 4 |->
     LET bit(j) == IF 8 * (4 - k) + j \in x THEN Pow2(j) ELSE 0
     IN bit(0) + bit(1) + bit(2) + bit(3) + bit(4) + bit(5) + bit(6) + bit(7)]

\* CRC-32 (IEEE 802.3) shifted bit by bit, without the table
RECURSIVE CrcShift(_, _)
CrcShift(c, n) == IF n = 0 THEN c ELSE CrcShift(CrcStep(c), n - 1)

Crc32Bitwise(bs) ==
  LET reg[i \in 0 .. Len(bs)] ==
        IF i = 0 THEN 0 .. 31
        ELSE CHOOSE r \in
               {CrcShift(U32Xor(c, U32FromByte(bs[i])), 8) : c \in {reg[i - 1]}} : TRUE
  IN U32Not(reg[Len(bs)])

Parsed == ret.op = "try_from" /\ mut.kind # "none"

FailedWith(name) == ret.res.kind = "Err" /\ ret.res.err.name = name

\* ------------------------------------------------------------------ C1
\* C1: for every valid tag t (four ASCII letters, byte index 2 uppercase)
\* and every payload p, parsing as_bytes(new(t, p)) succeeds and yields a
\* chunk equal to new(t, p).
C1_RoundTrip ==
  (Parsed /\ mut.kind = "as_bytes" /\ ValidTag(chunk.chunk_type.bytes))
    => ret.res = Ok(chunk)

\* ------------------------------------------------------------------ C2
\* C2: parsing any input returns a chunk or one of the typed errors; it
\* never ends in a panic.
C2_ParseTotal ==
  Parsed => /\ ret.res.kind \in {"Ok", "Err"}
            /\ ret.res.kind = "Err" =>
                 ret.res.err.name \in {"InputTooSmall", "InvalidChunkType", "InvalidCrc"}

\* ------------------------------------------------------------------ C3
\* C3 as stated: flipping one bit in the type or data region of the
\* serialisation of a chunk with a valid tag makes the parse fail with a CRC
\* mismatch.  Stated here for records whose tag holds no letter z before
\* or after the flip, where is_valid agrees with the definition of a valid tag.
C3_FlipGivesCrcMismatch ==
  (/\ Parsed
   /\ mut.kind = "flip"
   /\ ValidTag(chunk.chunk_type.bytes)
   /\ \A k \in 1 .. 4 : chunk.chunk_type.bytes[k] # 122 /\ value[4 + k] # 122)
    => FailedWith("InvalidCrc")

\* C3 amended: flipping one bit in the type or data region of the
\* serialisation of a chunk with a valid tag changes the CRC computed over
\* type and data, and the parse of the modified bytes never succeeds: it
\* fails with a CRC mismatch when the modified type bytes pass is_valid, and
\* with an invalid chunk type otherwise.
C3_FlipNeverParses ==
  (Parsed /\ mut.kind = "flip" /\ ValidTag(chunk.chunk_type.bytes))
    => /\ Crc32Bitwise(SubSeq(value, 5, Len(value) - 4)) # crc(chunk)
       /\ IF is_valid(ChunkType(SubSeq(value, 5, 8)))
          THEN /\ FailedWith("InvalidCrc")
               /\ ret.res.err.actual = Crc32Bitwise(SubSeq(value, 5, Len(value) - 4))
               /\ ret.res.err.expected = crc(chunk)
          ELSE ret.res = Err(InvalidChunkType)

\* a flip in the type region that leaves the type valid, and a flip in the
\* data region, both parsed to a CRC mismatch
C3_Witness ==
  /\ Parsed
  /\ mut.kind = "flip"
  /\ chunk.chunk_type.bytes = RuSt
  /\ chunk.data = <<65>>
  /\ mut.pos \in {5, 9}
  /\ mut.bit = 0
  /\ FailedWith("InvalidCrc")

\* ------------------------------------------------------------------ C4
\* C4: is_valid returns true exactly when all four bytes are ASCII letters
\* (A-Z or a-z, inclusive) and the byte at index 2 is uppercase, for every
\* tag built by try_from or by from_str.
C4_IsValidIffLettersAndReserved ==
  ret.op = "is_valid" => (ret.res <=> ValidTag(ret.arg.bytes))

\* ------------------------------------------------------------------ C5
\* C5: as_bytes is the payload length as 4 big-endian bytes, the 4 type
\* bytes, the payload, and the CRC-32 of type ++ payload as 4 big-endian
\* bytes: 12 + length bytes in all, 12 for an empty payload.
C5_WireLayout ==
  ret.op = "as_bytes" =>
    LET out == ret.res
        n == Len(ret.arg.data)
    IN /\ Len(out) = 12 + n
       /\ FieldValue(SubSeq(out, 1, 4)) = n
       /\ SubSeq(out, 5, 8) = ret.arg.chunk_type.bytes
       /\ SubSeq(out, 9, 8 + n) = ret.arg.data
       /\ SubSeq(out, 9 + n, 12 + n)
            = BigEndian(Crc32Bitwise(ret.arg.chunk_type.bytes \o ret.arg.data))
       /\ (ret.arg.chunk_type.bytes = RuSt /\ ret.arg.data = TestMessage)
            => SubSeq(out, 9 + n, 12 + n) = <<171, 209, 216, 78>>

\* the chunk of the tests serialised, and an empty payload serialised
C5_Witness ==
  /\ ret.op = "as_bytes"
  /\ \/ ret.arg.chunk_type.bytes = RuSt /\ ret.arg.data = TestMessage /\ Len(ret.res) = 54
     \/ ret.arg.data = <<>> /\ Len(ret.res) = 12

\* ------------------------------------------------------------------ C6
\* C6: when one byte of the CRC field of the serialisation of a chunk with
\* a valid tag is altered, the parse fails with InvalidCrc(expected, actual):
\* expected is the altered field read big-endian, actual is the CRC of
\* type ++ data, and the two differ.
C6_CorruptedTrailer ==
  (Parsed /\ mut.kind = "crc" /\ ValidTag(chunk.chunk_type.bytes))
    => /\ FailedWith("InvalidCrc")
       /\ BigEndian(ret.res.err.expected) = SubSeq(value, Len(value) - 3, Len(value))
       /\ ret.res.err.actual = Crc32Bitwise(chunk.chunk_type.bytes \o chunk.data)
       /\ ret.res.err.expected # ret.res.err.actual

\* ------------------------------------------------------------------ C7
\* C7: parsing any input of 0 to 11 bytes fails with InputTooSmall, whatever
\* the bytes are.
C7_TooShort ==
  (Parsed /\ Len(ret.arg) < 12) => ret.res = Err(InputTooSmall)

\* an 11-byte prefix of a serialised chunk with a valid type, parsed
C7_Witness ==
  /\ Parsed
  /\ mut.kind = "truncate"
  /\ Len(ret.arg) = 11
  /\ SubSeq(ret.arg, 5, 8) = RuSt
  /\ ret.res = Err(InputTooSmall)

\* ------------------------------------------------------------------ C8
\* C8: from_str fails with the length error when the text is not 4 bytes
\* long, with InvalidCharacter when it is 4 bytes long and some byte is not
\* an ASCII letter, and otherwise yields the tag holding those 4 bytes, the
\* one try_from yields for them, whatever the case of byte index 2.
C8_FromStr ==
  ret.op = "from_str" =>
    LET s == ret.arg
    IN /\ Len(s) # 4 => ret.res.kind = "Err" /\ ret.res.err.name = "ByteLengthError"
       /\ (Len(s) = 4 /\ \E k \in 1 .. 4 : ~IsAsciiLetter(s[k]))
            => ret.res = Err(InvalidCharacter)
       /\ (Len(s) = 4 /\ \A k \in 1 .. 4 : IsAsciiLetter(s[k]))
            => /\ ret.res.kind = "Ok"
               /\ ret.res.val.bytes = s
               /\ ret.res = ChunkType_try_from(s)
               /\ self = ret.res.val

\* a 4-letter text ending in z with a lowercase byte 2, accepted
C8_Witness ==
  /\ ret.op = "from_str"
  /\ ret.arg = <<65, 65, 97, 122>>
  /\ ret.res.kind = "Ok"

\* ------------------------------------------------------------------ C9
\* C9: is_critical, is_public and is_reserved_bit_valid are true exactly when
\* bit 0x20 of byte 0, 1 and 2 is clear, is_safe_to_copy exactly when bit
\* 0x20 of byte 3 is set; RuSt is critical, not public, reserved-bit valid
\* and safe to copy, RuST is not safe to copy, Rust not reserved-bit valid.
C9_TagBits ==
  /\ ret.op = "is_critical" => (ret.res <=> ~LowercaseBit(ret.arg.bytes[1]))
  /\ ret.op = "is_public" => (ret.res <=> ~LowercaseBit(ret.arg.bytes[2]))
  /\ ret.op = "is_reserved_bit_valid" => (ret.res <=> ~LowercaseBit(ret.arg.bytes[3]))
  /\ ret.op = "is_safe_to_copy" => (ret.res <=> LowercaseBit(ret.arg.bytes[4]))
  /\ (ret.op = "is_critical" /\ ret.arg.bytes = RuSt) => ret.res
  /\ (ret.op = "is_public" /\ ret.arg.bytes = RuSt) => ~ret.res
  /\ (ret.op = "is_reserved_bit_valid" /\ ret.arg.bytes = RuSt) => ret.res
  /\ (ret.op = "is_safe_to_copy" /\ ret.arg.bytes = RuSt) => ret.res
  /\ (ret.op = "is_safe_to_copy" /\ ret.arg.bytes = RuST) => ~ret.res
  /\ (ret.op = "is_reserved_bit_valid" /\ ret.arg.bytes = Rust) => ~ret.res

\* is_public asked of RuSt, whose byte 0 is uppercase and byte 1 lowercase
C9_Witness ==
  /\ ret.op = "is_public"
  /\ ret.arg.bytes = RuSt
  /\ ret.res = FALSE

\* ----------------------------------------------------------------- C10
\* C10: when the parse of b returns a chunk c, the type of c passes
\* is_valid, the length of c is the declared length N of b[0..4), and
\* as_bytes(c) is b[0..12+N); bytes appended to a serialised chunk do not
\* change the outcome of its parse, which is the serialised chunk whenever
\* its type passes is_valid.
C10_ParseSound ==
  /\ (Parsed /\ ret.res.kind = "Ok") =>
       LET c == ret.res.val
           b == ret.arg
           N == FieldValue(SubSeq(b, 1, 4))
       IN /\ is_valid(c.chunk_type)
          /\ ValidTag(c.chunk_type.bytes)
          /\ N >= 0
          /\ length(c) = N
          /\ Len(b) >= 12 + N
          /\ as_bytes(c) = SubSeq(b, 1, 12 + N)
  /\ (Parsed /\ mut.kind = "append") =>
       /\ ret.res = Chunk_try_from(as_bytes(chunk))
       /\ is_valid(chunk.chunk_type) => ret.res = Ok(chunk)

\* a serialised chunk followed by two more bytes, parsed to the chunk
C10_Witness ==
  /\ Parsed
  /\ mut.kind = "append"
  /\ Len(mut.extra) = 2
  /\ Len(chunk.data) > 0
  /\ ret.res = Ok(chunk)

====
